---- MODULE Spec2Model ----
(***************************************************************************)
(* Payroll calculation engine of src/main.py: Employee.calculate_gross_pay, *)
(* PayrollCalculator and PayrollSystem.process_all_payroll.                 *)
(*                                                                         *)
(* Numbers.  The program computes with Python floats; the model computes   *)
(* with exact fixed-point integers:                                        *)
(*   - inputs (salary values, hours, days, thresholds, exemptions, fixed   *)
(*     amounts, caps) are whole currency units;                            *)
(*   - a tax / social-security / deduction rate is a percentage, i.e. a    *)
(*     numerator over RateDen;                                             *)
(*   - a percentage bonus is a numerator over BonusDen;                    *)
(*   - a gross pay is a numerator over GrossDen = BonusDen^MaxBonuses, so  *)
(*     that every bonus fold is exact;                                     *)
(*   - every amount derived from gross pay and a rate (taxes, deductions,  *)
(*     net pay, and the fields of a PayrollResult) is a numerator over     *)
(*     GrossDen * RateDen ("fine" units).                                  *)
(* An absent value (Python None / missing key) is the empty sequence and   *)
(* a present value x is <<x>>.                                             *)
(***************************************************************************)
EXTENDS Integers, Sequences, FiniteSets, TLC

VARIABLES
    config,               \* ConfigLoader.config: the rule file as loaded (brackets in file order)
    calculator,           \* PayrollSystem.calculator: the PayrollCalculator snapshot, or NoCalculator
    employees,            \* PayrollSystem.employees: the registry, in insertion order
    call                  \* the last call (engine function or handler): arguments and outcome

vars == <<config, calculator, employees, call>>

----------------------------------------------------------------------------
(* Bounds of the model *)

MaxBrackets == 3
MaxMinIncome == 2
MaxMaxIncome == 2
MaxGross == 3
MaxExemptions == 1
MaxBonuses == 2

(* Fixed-point denominators *)

RateDen == 100
BonusDen == 10

RECURSIVE Pow(_, _)
Pow(b, n) == IF n = 0 THEN 1 ELSE b * Pow(b, n - 1)

GrossDen == Pow(BonusDen, MaxBonuses)
FineDen == GrossDen * RateDen

None == <<>>
Some(x) == <<x>>
Val(o) == o[1]

Max(a, b) == IF a >= b THEN a ELSE b
Min(a, b) == IF a <= b THEN a ELSE b

----------------------------------------------------------------------------
(* DEFAULT_CONFIG *)

DefaultTaxBrackets ==
    << [min_income |-> 0,    max_income |-> Some(1000), rate |-> 10],
       [min_income |-> 1001, max_income |-> Some(5000), rate |-> 20],
       [min_income |-> 5001, max_income |-> None,       rate |-> 30] >>

DefaultSocialSecurity ==
    [employee_rate |-> 8, employer_rate |-> 12,
     max_employee_contribution |-> Some(400), max_employer_contribution |-> Some(600)]

DefaultDeductions ==
    << [name |-> "pension", type |-> "percentage", rate |-> Some(5), amount |-> None],
       [name |-> "health_insurance", type |-> "fixed", rate |-> None, amount |-> Some(50)] >>

DefaultConfig ==
    [tax_brackets |-> DefaultTaxBrackets,
     social_security |-> DefaultSocialSecurity,
     deductions |-> DefaultDeductions]

----------------------------------------------------------------------------
(* PayrollCalculator.__init__ *)

RECURSIVE InsertByMinIncome(_, _)
InsertByMinIncome(sorted, b) ==
    IF sorted = <<>> THEN <<b>>
    ELSE IF sorted[Len(sorted)].min_income <= b.min_income
         THEN Append(sorted, b)
         ELSE Append(InsertByMinIncome(SubSeq(sorted, 1, Len(sorted) - 1), b),
                     sorted[Len(sorted)])

RECURSIVE SortedByMinIncome(_)
SortedByMinIncome(brackets) ==
    IF brackets = <<>> THEN <<>>
    ELSE InsertByMinIncome(SortedByMinIncome(SubSeq(brackets, 1, Len(brackets) - 1)),
                           brackets[Len(brackets)])

(* faulty variant: the calculator keeps the brackets in file order *)
SortedTaxBracketsUnsorted(brackets) == brackets

SortedTaxBrackets(brackets) == SortedByMinIncome(brackets)

NoCalculator == [constructed |-> FALSE]

NewPayrollCalculator(cfg) ==
    [constructed |-> TRUE,
     tax_brackets |-> SortedTaxBrackets(cfg.tax_brackets),
     social_security_config |-> cfg.social_security,
     default_deductions_config |-> cfg.deductions]

----------------------------------------------------------------------------
(* PayrollCalculator._calculate_income_tax *)

(* faulty variant: exemptions are not subtracted *)
TaxableIncomeNoExemptions(gross_income, tax_exemptions) == Max(0, gross_income)

TaxableIncome(gross_income, tax_exemptions) ==
    Max(0, gross_income - tax_exemptions * GrossDen)

LoopBreaks(taxable_income, bracket) ==
    taxable_income <= bracket.min_income * GrossDen

(* faulty variant: an unbounded bracket is given an upper bound of 0 *)
TierUpperBoundUnboundedZero(taxable_income, bracket) ==
    Min(taxable_income,
        IF bracket.max_income # None THEN Val(bracket.max_income) * GrossDen ELSE 0)

(* faulty variant: max_income is ignored *)
TierUpperBoundNoMax(taxable_income, bracket) == taxable_income

TierUpperBound(taxable_income, bracket) ==
    IF bracket.max_income # None
    THEN Min(taxable_income, Val(bracket.max_income) * GrossDen)
    ELSE taxable_income

(* faulty variant: the lower bound of a tier ignores the earlier tiers *)
TierLowerBoundIgnoringPrevious(bracket, previous_tier_max_income) ==
    bracket.min_income * GrossDen

TierLowerBound(bracket, previous_tier_max_income) ==
    Max(bracket.min_income * GrossDen, previous_tier_max_income)

(* faulty variant: the amount in a tier is not clamped at zero *)
TaxableAmountInTierUnclamped(upper, lower) == upper - lower

TaxableAmountInTier(upper, lower) == Max(0, upper - lower)

(* faulty variant: only the latest bracket's max_income is remembered *)
NextPreviousTierMaxLatest(previous_tier_max_income, bracket, taxable_income) ==
    IF bracket.max_income # None THEN Val(bracket.max_income) * GrossDen
    ELSE taxable_income

NextPreviousTierMax(previous_tier_max_income, bracket, taxable_income) ==
    Max(previous_tier_max_income,
        IF bracket.max_income # None THEN Val(bracket.max_income) * GrossDen
        ELSE taxable_income)

RECURSIVE IncomeTaxLoop(_, _, _, _, _)
IncomeTaxLoop(tax_brackets, i, taxable_income, total_income_tax, previous_tier_max_income) ==
    IF i > Len(tax_brackets) THEN total_income_tax
    ELSE LET bracket == tax_brackets[i] IN
         IF LoopBreaks(taxable_income, bracket) THEN total_income_tax
         ELSE LET upper == TierUpperBound(taxable_income, bracket)
                  lower == TierLowerBound(bracket, previous_tier_max_income)
              IN  IncomeTaxLoop(tax_brackets, i + 1, taxable_income,
                        total_income_tax + TaxableAmountInTier(upper, lower) * bracket.rate,
                        NextPreviousTierMax(previous_tier_max_income, bracket, taxable_income))

(* the position of the bracket at which the loop leaves with break, 0 when
   the loop runs to the end of the list *)
RECURSIVE BreakIndex(_, _, _)
BreakIndex(tax_brackets, i, taxable_income) ==
    IF i > Len(tax_brackets) THEN 0
    ELSE IF LoopBreaks(taxable_income, tax_brackets[i]) THEN i
    ELSE BreakIndex(tax_brackets, i + 1, taxable_income)

(* gross_income in 1/GrossDen, tax_exemptions in units, result in fine units *)
CalculateIncomeTax(calc, gross_income, tax_exemptions) ==
    IncomeTaxLoop(calc.tax_brackets, 1, TaxableIncome(gross_income, tax_exemptions), 0, 0)

----------------------------------------------------------------------------
(* Employee.calculate_gross_pay *)

Ok(v) == [ok |-> TRUE, value |-> v]
Raise(e) == [ok |-> FALSE, error |-> e]

(* faulty variant: an absent hours_worked / days_worked counts as 0 *)
BasePayAbsentAsZero(employee) ==
    IF employee.base_salary_type = "monthly" THEN Ok(employee.base_salary_value * GrossDen)
    ELSE IF employee.base_salary_type = "hourly"
         THEN IF employee.hours_worked = None THEN Ok(0)
              ELSE Ok(employee.base_salary_value * Val(employee.hours_worked) * GrossDen)
    ELSE IF employee.base_salary_type = "daily"
         THEN IF employee.days_worked = None THEN Ok(0)
              ELSE Ok(employee.base_salary_value * Val(employee.days_worked) * GrossDen)
    ELSE Ok(0)

(* faulty variant: a daily rate is multiplied by hours_worked *)
BasePayDailyByHours(employee) ==
    IF employee.base_salary_type = "monthly" THEN Ok(employee.base_salary_value * GrossDen)
    ELSE IF employee.base_salary_type = "hourly"
         THEN IF employee.hours_worked = None THEN Raise("ValueError")
              ELSE Ok(employee.base_salary_value * Val(employee.hours_worked) * GrossDen)
    ELSE IF employee.base_salary_type = "daily"
         THEN IF employee.days_worked = None THEN Raise("ValueError")
              ELSE IF employee.hours_worked = None THEN Ok(0)
              ELSE Ok(employee.base_salary_value * Val(employee.hours_worked) * GrossDen)
    ELSE Ok(0)

(* lines 144-154: the pay before bonuses, in 1/GrossDen *)
BasePay(employee) ==
    IF employee.base_salary_type = "monthly" THEN Ok(employee.base_salary_value * GrossDen)
    ELSE IF employee.base_salary_type = "hourly"
         THEN IF employee.hours_worked = None THEN Raise("ValueError")
              ELSE Ok(employee.base_salary_value * Val(employee.hours_worked) * GrossDen)
    ELSE IF employee.base_salary_type = "daily"
         THEN IF employee.days_worked = None THEN Raise("ValueError")
              ELSE Ok(employee.base_salary_value * Val(employee.days_worked) * GrossDen)
    ELSE Ok(0)

(* one iteration of the bonus loop; the division is exact for a list of at
   most MaxBonuses bonuses *)
ApplyBonus(gross_pay, bonus) ==
    IF bonus.type = "amount" THEN gross_pay + bonus.value * GrossDen
    ELSE IF bonus.type = "percentage" THEN gross_pay + (gross_pay * bonus.value) \div BonusDen
    ELSE gross_pay

RECURSIVE ApplyBonusesFrom(_, _, _)
ApplyBonusesFrom(gross_pay, bonuses, i) ==
    IF i > Len(bonuses) THEN gross_pay
    ELSE ApplyBonusesFrom(ApplyBonus(gross_pay, bonuses[i]), bonuses, i + 1)

RECURSIVE ApplyBonusesDownFrom(_, _, _)
ApplyBonusesDownFrom(gross_pay, bonuses, i) ==
    IF i < 1 THEN gross_pay
    ELSE ApplyBonusesDownFrom(ApplyBonus(gross_pay, bonuses[i]), bonuses, i - 1)

(* faulty variant: the bonuses are applied last to first *)
ApplyBonusesReversed(gross_pay, bonuses) ==
    ApplyBonusesDownFrom(gross_pay, bonuses, Len(bonuses))

ApplyBonuses(gross_pay, bonuses) == ApplyBonusesFrom(gross_pay, bonuses, 1)

CalculateGrossPay(employee) ==
    LET base == BasePay(employee) IN
    IF ~base.ok THEN base
    ELSE Ok(ApplyBonuses(base.value, employee.bonuses))

----------------------------------------------------------------------------
(* PayrollCalculator: social security, deductions, calculate_payroll.
   Amounts are in fine units. *)

(* faulty variant: the ceiling is not applied *)
CappedContributionUncapped(gross_income, rate, max_contribution) ==
    gross_income * rate

CappedContribution(gross_income, rate, max_contribution) ==
    LET contribution == gross_income * rate IN
    IF max_contribution = None THEN contribution
    ELSE Min(contribution, Val(max_contribution) * FineDen)

(* faulty variant: the employee's share is computed from the employer's settings *)
CalculateEmployeeSocialSecurityTaxEmployerSettings(calc, gross_income) ==
    CappedContribution(gross_income,
                       calc.social_security_config.employer_rate,
                       calc.social_security_config.max_employer_contribution)

CalculateEmployeeSocialSecurityTax(calc, gross_income) ==
    CappedContribution(gross_income,
                       calc.social_security_config.employee_rate,
                       calc.social_security_config.max_employee_contribution)

CalculateEmployerSocialSecurityContribution(calc, gross_income) ==
    CappedContribution(gross_income,
                       calc.social_security_config.employer_rate,
                       calc.social_security_config.max_employer_contribution)

(* faulty variant: every assignment adds an entry *)
DictSetAppending(d, name, amount) ==
    Append(d, [name |-> name, amount |-> amount])

(* dict assignment d[name] = amount on an insertion-ordered dict *)
DictSet(d, name, amount) ==
    IF \E i \in 1..Len(d) : d[i].name = name
    THEN [i \in 1..Len(d) |-> IF d[i].name = name THEN [name |-> name, amount |-> amount] ELSE d[i]]
    ELSE Append(d, [name |-> name, amount |-> amount])

(* a default deduction: ded_info['amount'] / ded_info['rate'] raise KeyError when absent *)
DefaultDeductionAmount(gross_income, ded_info) ==
    IF ded_info.type = "fixed"
    THEN IF ded_info.amount = None THEN Raise("KeyError") ELSE Ok(Val(ded_info.amount) * FineDen)
    ELSE IF ded_info.type = "percentage"
    THEN IF ded_info.rate = None THEN Raise("KeyError") ELSE Ok(gross_income * Val(ded_info.rate))
    ELSE Ok(0)

(* faulty variant: a percentage value is taken as an absolute amount *)
CustomDeductionAmountAbsolute(gross_income, ded) ==
    IF ded.type = "fixed" \/ ded.type = "percentage" THEN ded.value * FineDen
    ELSE 0

CustomDeductionAmount(gross_income, ded) ==
    IF ded.type = "fixed" THEN ded.value * FineDen
    ELSE IF ded.type = "percentage" THEN gross_income * ded.value
    ELSE 0

RECURSIVE DefaultDeductionsFrom(_, _, _, _)
DefaultDeductionsFrom(gross_income, defaults, i, total_other_deductions) ==
    IF i > Len(defaults) THEN Ok(total_other_deductions)
    ELSE LET amount == DefaultDeductionAmount(gross_income, defaults[i]) IN
         IF ~amount.ok THEN amount
         ELSE DefaultDeductionsFrom(gross_income, defaults, i + 1,
                  DictSet(total_other_deductions, defaults[i].name, amount.value))

RECURSIVE CustomDeductionsFrom(_, _, _, _)
CustomDeductionsFrom(gross_income, custom_deductions, i, total_other_deductions) ==
    IF i > Len(custom_deductions) THEN total_other_deductions
    ELSE CustomDeductionsFrom(gross_income, custom_deductions, i + 1,
             DictSet(total_other_deductions, custom_deductions[i].name,
                     CustomDeductionAmount(gross_income, custom_deductions[i])))

CalculateOtherDeductions(calc, gross_income, custom_deductions) ==
    LET defaults == DefaultDeductionsFrom(gross_income, calc.default_deductions_config, 1, <<>>) IN
    IF ~defaults.ok THEN defaults
    ELSE Ok(CustomDeductionsFrom(gross_income, custom_deductions, 1, defaults.value))

RECURSIVE SumAmounts(_)
SumAmounts(d) == IF d = <<>> THEN 0 ELSE d[1].amount + SumAmounts(Tail(d))

(* the keys of taxes_breakdown and employer_contributions_breakdown *)
IncomeTaxKey == "income_tax"
EmployeeSocialSecurityKey == "social_security_employee"
EmployerSocialSecurityKey == "social_security_employer"

(* faulty variant: an entry is left out when its amount is zero *)
TaxesBreakdownOmittingZero(income_tax, employee_social_security_tax) ==
    (IF income_tax = 0 THEN <<>> ELSE << [name |-> IncomeTaxKey, amount |-> income_tax] >>)
    \o (IF employee_social_security_tax = 0 THEN <<>>
        ELSE << [name |-> EmployeeSocialSecurityKey, amount |-> employee_social_security_tax] >>)

(* the dict literal taxes_breakdown *)
TaxesBreakdown(income_tax, employee_social_security_tax) ==
    << [name |-> IncomeTaxKey, amount |-> income_tax],
       [name |-> EmployeeSocialSecurityKey, amount |-> employee_social_security_tax] >>

(* faulty variant: the net pay is floored at zero *)
NetPayFloored(gross_pay, total_employee_taxes, total_other_deductions) ==
    Max(0, gross_pay - total_employee_taxes - total_other_deductions)

NetPay(gross_pay, total_employee_taxes, total_other_deductions) ==
    gross_pay - total_employee_taxes - total_other_deductions

CalculatePayroll(calc, employee) ==
    LET gross == CalculateGrossPay(employee) IN
    IF ~gross.ok THEN gross
    ELSE
    LET gross_pay == gross.value
        income_tax == CalculateIncomeTax(calc, gross_pay, employee.tax_exemptions)
        employee_social_security_tax == CalculateEmployeeSocialSecurityTax(calc, gross_pay)
        taxes_breakdown == TaxesBreakdown(income_tax, employee_social_security_tax)
        deductions == CalculateOtherDeductions(calc, gross_pay, employee.custom_deductions)
    IN
    IF ~deductions.ok THEN deductions
    ELSE
    Ok([gross_pay |-> gross_pay * RateDen,
        net_pay |-> NetPay(gross_pay * RateDen, SumAmounts(taxes_breakdown),
                           SumAmounts(deductions.value)),
        taxes_breakdown |-> taxes_breakdown,
        deductions_breakdown |-> deductions.value,
        employer_contributions_breakdown |->
            << [name |-> EmployerSocialSecurityKey,
                amount |-> CalculateEmployerSocialSecurityContribution(calc, gross_pay)] >>])

----------------------------------------------------------------------------
(* PayrollResult.get_summary: the summary as the list of its lines *)

(* the format {:.2f} of an amount in fine units: the sign and the hundredths
   nearest to it. Exactly halfway between two hundredths the digit printed
   depends on the binary value of the float; the text then keeps the lower
   hundredths and the mark tie. *)
Format2(amount) ==
    LET unit == FineDen \div 100
        magnitude == IF amount < 0 THEN -amount ELSE amount
        below == magnitude \div unit
        rest == magnitude % unit
    IN  [negative |-> amount < 0,
         hundredths |-> IF 2 * rest > unit THEN below + 1 ELSE below,
         tie |-> 2 * rest = unit]

HeadingLine(heading) == [line |-> heading, label |-> "", text |-> None]
AmountLine(heading, amount) == [line |-> heading, label |-> "", text |-> Some(Format2(amount))]

(* the lines "    - key: amount" of a breakdown, in the order of its items() *)
ItemLines(breakdown) ==
    [i \in 1..Len(breakdown) |->
        [line |-> "item", label |-> breakdown[i].name,
         text |-> Some(Format2(breakdown[i].amount))]]

(* faulty variant: the deductions are listed before the taxes *)
GetSummaryDeductionsFirst(result) ==
    << HeadingLine("title"), AmountLine("gross_pay", result.gross_pay),
       HeadingLine("employee_deductions") >>
    \o ItemLines(result.deductions_breakdown)
    \o ItemLines(result.taxes_breakdown)
    \o << AmountLine("net_pay", result.net_pay) >>
    \o (IF result.employer_contributions_breakdown # <<>>
        THEN << HeadingLine("employer_contributions") >>
                 \o ItemLines(result.employer_contributions_breakdown)
        ELSE <<>>)

GetSummary(result) ==
    << HeadingLine("title"), AmountLine("gross_pay", result.gross_pay),
       HeadingLine("employee_deductions") >>
    \o ItemLines(result.taxes_breakdown)
    \o ItemLines(result.deductions_breakdown)
    \o << AmountLine("net_pay", result.net_pay) >>
    \o (IF result.employer_contributions_breakdown # <<>>
        THEN << HeadingLine("employer_contributions") >>
                 \o ItemLines(result.employer_contributions_breakdown)
        ELSE <<>>)

----------------------------------------------------------------------------
(* Input sets *)

SeqsUpTo(S, n) == UNION { [1..k -> S] : k \in 0..n }

OptIncomes == {None} \cup { Some(m) : m \in 1..MaxMaxIncome }

(* a progressive schedule: the rate of a bracket grows with its min_income,
   10% from 0, 20% from 1, ... as in DEFAULT_CONFIG *)
ProgressiveRate(min_income) == Min(RateDen, 10 * (min_income + 1))

TaxBrackets ==
    { [min_income |-> m, max_income |-> x, rate |-> ProgressiveRate(m)] :
        m \in 0..MaxMinIncome, x \in OptIncomes }

(* a single unbounded bracket from 0, at any rate in [0,1] in steps of 10% *)
FlatRates == { 10 * k : k \in 0..10 }
FlatTaxBrackets ==
    { << [min_income |-> 0, max_income |-> None, rate |-> r] >> : r \in FlatRates }

(* overlapping brackets at the full rate, in any order in the rule file *)
FullRateTaxBrackets ==
    { [min_income |-> m, max_income |-> x, rate |-> RateDen] :
        m \in {0, 1}, x \in {None, Some(1), Some(2)} }
FullRateTaxBracketLists == [1..2 -> FullRateTaxBrackets]

TaxBracketLists ==
    SeqsUpTo(TaxBrackets, MaxBrackets) \cup FlatTaxBrackets \cup {DefaultTaxBrackets}
        \cup FullRateTaxBracketLists

(* the worked examples of the documentation: gross 6000 under the default
   brackets; monthly 1000 with an amount bonus of 100 and a 10% bonus *)
Example == [gross |-> 6000, salary |-> 1000, bonus |-> 100]

GrossInputs == (0..MaxGross) \cup {Example.gross}

NoCall == [op |-> "none"]

----------------------------------------------------------------------------
(* Specification of the income-tax function: a rule file with any bracket
   list is loaded, a calculator is constructed from it, and
   _calculate_income_tax is called on it.  The function is pure, so one call
   per behaviour covers every call. *)

InitTax ==
    /\ config \in [tax_brackets : TaxBracketLists,
                   social_security : {DefaultSocialSecurity},
                   deductions : {DefaultDeductions}]
    /\ calculator = NoCalculator
    /\ employees = <<>>
    /\ call = NoCall

PayrollCalculatorInit ==
    /\ ~calculator.constructed
    /\ calculator' = NewPayrollCalculator(config)
    /\ UNCHANGED <<config, employees, call>>

CallCalculateIncomeTax ==
    /\ calculator.constructed
    /\ call = NoCall
    /\ \E g \in GrossInputs, e \in 0..MaxExemptions :
          call' = [op |-> "_calculate_income_tax",
                   gross_income |-> g * GrossDen,
                   tax_exemptions |-> e,
                   result |-> CalculateIncomeTax(calculator, g * GrossDen, e)]
    /\ UNCHANGED <<config, calculator, employees>>

NextTax == PayrollCalculatorInit \/ CallCalculateIncomeTax

SpecTax == InitTax /\ [][NextTax]_vars

----------------------------------------------------------------------------
(* Properties of _calculate_income_tax, checked under SpecTax *)

IsTaxCall == call.op = "_calculate_income_tax"

(* C1: with the default brackets, gross = 6000 and no exemptions the income
   tax is exactly 1200 (100 + 800 + 300). *)
C1_DefaultExampleIs1200 ==
    (IsTaxCall /\ config.tax_brackets = DefaultTaxBrackets
       /\ call.gross_income = Example.gross * GrossDen /\ call.tax_exemptions = 0)
    => call.result = 1200 * FineDen

(* What the code returns for that input: 1000*0.10 + 3999*0.20 + 999*0.30 = 1199.5 *)
C1_DefaultExampleIs1199_5 ==
    (IsTaxCall /\ config.tax_brackets = DefaultTaxBrackets
       /\ call.gross_income = Example.gross * GrossDen /\ call.tax_exemptions = 0)
    => call.result * 10 = 11995 * FineDen

IsSingleUnboundedBracket(brackets) ==
    /\ Len(brackets) = 1
    /\ brackets[1].min_income = 0
    /\ brackets[1].max_income = None

(* C2: for a single unbounded bracket {min_income: 0, rate: r}, no exemptions
   and every gross >= 0, the income tax is gross * r. *)
C2_SingleUnboundedBracket ==
    (IsTaxCall /\ IsSingleUnboundedBracket(config.tax_brackets) /\ call.tax_exemptions = 0)
    => call.result = call.gross_income * config.tax_brackets[1].rate

C2_Witness ==
    /\ IsTaxCall /\ IsSingleUnboundedBracket(config.tax_brackets)
    /\ call.tax_exemptions = 0
    /\ call.gross_income > 0
    /\ call.result = call.gross_income * config.tax_brackets[1].rate

(* C3: the tax is computed on max(0, gross - exemptions): it is 0 when the
   exemptions reach the gross, and otherwise equals the tax on
   gross - exemptions without exemptions. *)
C3_TaxOnTaxableIncome ==
    IsTaxCall =>
        IF call.tax_exemptions * GrossDen >= call.gross_income
        THEN call.result = 0
        ELSE call.result =
                CalculateIncomeTax(calculator,
                                   call.gross_income - call.tax_exemptions * GrossDen, 0)

C3_Witness ==
    /\ IsTaxCall
    /\ call.tax_exemptions > 0
    /\ call.tax_exemptions * GrossDen < call.gross_income
    /\ call.result > 0
    /\ call.result < CalculateIncomeTax(calculator, call.gross_income, 0)

C3_WitnessExempt ==
    /\ IsTaxCall
    /\ call.tax_exemptions > 0
    /\ call.tax_exemptions * GrossDen >= call.gross_income
    /\ call.gross_income > 0
    /\ CalculateIncomeTax(calculator, call.gross_income, 0) > 0
    /\ call.result = 0

(* C4: for every bracket list with rates in [0,1], sorted or not, overlapping
   or gapped, the income tax is >= 0. *)
C4_TaxNonNegative == IsTaxCall => call.result >= 0

Overlap(b1, b2) ==
    /\ b1.min_income <= b2.min_income
    /\ b1.max_income # None => b2.min_income < Val(b1.max_income)

C4_Witness ==
    /\ IsTaxCall
    /\ call.result > 0
    /\ config.tax_brackets # calculator.tax_brackets
    /\ \E i, j \in 1..Len(calculator.tax_brackets) :
          /\ i < j
          /\ Overlap(calculator.tax_brackets[i], calculator.tax_brackets[j])
          /\ calculator.tax_brackets[j].max_income # None
          /\ calculator.tax_brackets[i].max_income # None
          /\ Val(calculator.tax_brackets[j].max_income) < Val(calculator.tax_brackets[i].max_income)
          /\ call.gross_income - call.tax_exemptions * GrossDen
                > calculator.tax_brackets[j].min_income * GrossDen

IndexPermutations(n) == { p \in [1..n -> 1..n] : \A i, j \in 1..n : i # j => p[i] # p[j] }

Permuted(s, p) == [i \in 1..Len(s) |-> s[p[i]]]

DistinctMinIncome(brackets) ==
    \A i, j \in 1..Len(brackets) : i # j => brackets[i].min_income # brackets[j].min_income

(* C5: the income tax does not depend on the order of the brackets in the
   config: every permutation of a bracket list with pairwise distinct
   min_income gives the same tax. *)
C5_BracketOrderIrrelevant ==
    (IsTaxCall /\ DistinctMinIncome(config.tax_brackets)) =>
      /\ \A i, j \in 1..Len(calculator.tax_brackets) :
            i < j => calculator.tax_brackets[i].min_income < calculator.tax_brackets[j].min_income
      /\ \A p \in IndexPermutations(Len(config.tax_brackets)) :
            CalculateIncomeTax(
                NewPayrollCalculator([config EXCEPT !.tax_brackets = Permuted(@, p)]),
                call.gross_income, call.tax_exemptions) = call.result

C5_Witness ==
    /\ IsTaxCall
    /\ DistinctMinIncome(config.tax_brackets)
    /\ Len(config.tax_brackets) = 3
    /\ config.tax_brackets # calculator.tax_brackets
    /\ call.result > 0
    /\ \E p \in IndexPermutations(3) :
          IncomeTaxLoop(Permuted(config.tax_brackets, p), 1,
                        TaxableIncome(call.gross_income, call.tax_exemptions), 0, 0)
             # call.result

CallTaxable == TaxableIncome(call.gross_income, call.tax_exemptions)

(* the gap between bracket i and its successor, in the calculator's order *)
InGapAfter(brackets, i, taxable_income) ==
    /\ i < Len(brackets)
    /\ brackets[i].max_income # None
    /\ Val(brackets[i].max_income) < brackets[i + 1].min_income
    /\ Val(brackets[i].max_income) * GrossDen < taxable_income
    /\ taxable_income <= brackets[i + 1].min_income * GrossDen

(* no bracket up to i reaches above bracket i's max_income *)
NothingAbove(brackets, i) ==
    \A k \in 1..i :
        /\ brackets[k].max_income # None
        /\ Val(brackets[k].max_income) <= Val(brackets[i].max_income)

(* C6 as stated: income above a bracket's max_income and below the next
   bracket's min_income adds nothing to the tax. *)
C6_GapUntaxed ==
    IsTaxCall =>
        \A i \in 1..Len(calculator.tax_brackets) :
            InGapAfter(calculator.tax_brackets, i, CallTaxable) =>
                call.result =
                    CalculateIncomeTax(calculator,
                        Val(calculator.tax_brackets[i].max_income) * GrossDen, 0)

(* C6 amended: the same, for a gap that no lower bracket reaches into. *)
C6_UncoveredGapUntaxed ==
    IsTaxCall =>
        \A i \in 1..Len(calculator.tax_brackets) :
            (InGapAfter(calculator.tax_brackets, i, CallTaxable)
               /\ NothingAbove(calculator.tax_brackets, i)) =>
                call.result =
                    CalculateIncomeTax(calculator,
                        Val(calculator.tax_brackets[i].max_income) * GrossDen, 0)

C6_Witness ==
    /\ IsTaxCall
    /\ call.result > 0
    /\ \E i \in 1..Len(calculator.tax_brackets) :
          /\ InGapAfter(calculator.tax_brackets, i, CallTaxable)
          /\ NothingAbove(calculator.tax_brackets, i)
          /\ calculator.tax_brackets[i].rate > 0
          /\ calculator.tax_brackets[i].min_income < Val(calculator.tax_brackets[i].max_income)

----------------------------------------------------------------------------
(* Specification of the per-employee functions: a calculator is constructed
   from a rule file, and calculate_gross_pay / calculate_payroll are called
   on employee records. *)

MaxSalary == 2
MaxHours == 2

BonusInputs ==
    [type : {"amount"}, value : {1, Example.bonus}]
      \cup [type : {"percentage"}, value : {1}]
      \cup [type : {"other"}, value : {1}]

CustomDeductionInputs ==
    { <<>>,
      << [name |-> "pension", type |-> "fixed", value |-> 1] >>,
      << [name |-> "union", type |-> "percentage", value |-> 10] >>,
      << [name |-> "union", type |-> "fixed", value |-> 2],
         [name |-> "pension", type |-> "fixed", value |-> 1],
         [name |-> "union", type |-> "percentage", value |-> 10] >> }

OptHours == {None} \cup { Some(h) : h \in {0, 1, MaxHours} }

EmployeeInputs ==
    [employee_id : {1},
     name : {"Ann"},
     base_salary_type : {"monthly", "hourly", "daily"},
     base_salary_value : {0, 1, MaxSalary, Example.salary},
     bonuses : SeqsUpTo(BonusInputs, MaxBonuses),
     custom_deductions : CustomDeductionInputs,
     hours_worked : OptHours,
     days_worked : OptHours,
     tax_exemptions : {0, MaxExemptions}]

(* a rule file whose thresholds are in the range of the small salaries,
   written with the brackets out of order *)
SmallConfig ==
    [tax_brackets |->
        << [min_income |-> 2, max_income |-> None,    rate |-> 50],
           [min_income |-> 0, max_income |-> Some(2), rate |-> 10] >>,
     social_security |->
        [employee_rate |-> 8, employer_rate |-> 12,
         max_employee_contribution |-> Some(1), max_employer_contribution |-> Some(2)],
     deductions |-> DefaultDeductions]

PayrollConfigs == {DefaultConfig, SmallConfig}

InitPayroll ==
    /\ config \in PayrollConfigs
    /\ calculator = NoCalculator
    /\ employees = <<>>
    /\ call = NoCall

CallCalculateGrossPay ==
    /\ call = NoCall
    /\ \E e \in EmployeeInputs :
          call' = [op |-> "calculate_gross_pay", employee |-> e,
                   outcome |-> CalculateGrossPay(e)]
    /\ UNCHANGED <<config, calculator, employees>>

CallCalculatePayroll ==
    /\ calculator.constructed
    /\ call = NoCall
    /\ \E e \in EmployeeInputs :
          call' = [op |-> "calculate_payroll", employee |-> e,
                   outcome |-> CalculatePayroll(calculator, e)]
    /\ UNCHANGED <<config, calculator, employees>>

(* the employees whose results are summarised: monthly, without hours or days *)
SummaryEmployees ==
    { e \in EmployeeInputs :
        e.base_salary_type = "monthly" /\ e.hours_worked = None /\ e.days_worked = None }

(* a PayrollResult as calculate_payroll builds it, or one constructed with an
   empty employer_contributions_breakdown *)
PayrollResultsOf(calc, e) ==
    LET result == CalculatePayroll(calc, e).value IN
    { result, [result EXCEPT !.employer_contributions_breakdown = <<>>] }

CallGetSummary ==
    /\ calculator.constructed
    /\ call = NoCall
    /\ \E e \in SummaryEmployees :
          \E result \in PayrollResultsOf(calculator, e) :
             call' = [op |-> "get_summary", employee |-> e, result |-> result,
                      summary |-> GetSummary(result)]
    /\ UNCHANGED <<config, calculator, employees>>

NextPayroll ==
    PayrollCalculatorInit \/ CallCalculateGrossPay \/ CallCalculatePayroll \/ CallGetSummary

SpecPayroll == InitPayroll /\ [][NextPayroll]_vars

----------------------------------------------------------------------------
(* Properties of calculate_gross_pay and calculate_payroll, checked under
   SpecPayroll *)

IsGrossCall == call.op = "calculate_gross_pay"
IsPayrollCall == call.op = "calculate_payroll"

(* the pay before bonuses as the documentation states it, in currency units *)
StatedBasePay(e) ==
    CASE e.base_salary_type = "monthly" -> e.base_salary_value
      [] e.base_salary_type = "hourly"  -> e.base_salary_value * Val(e.hours_worked)
      [] e.base_salary_type = "daily"   -> e.base_salary_value * Val(e.days_worked)

HasInputs(e) ==
    /\ e.base_salary_type = "hourly" => e.hours_worked # None
    /\ e.base_salary_type = "daily" => e.days_worked # None

(* C7: before bonuses the gross pay is the value (monthly), value * hours_worked
   (hourly) or value * days_worked (daily); hours and days do not influence a
   monthly employee's pay. *)
C7_BasePay ==
    (IsGrossCall /\ call.employee.bonuses = <<>> /\ HasInputs(call.employee))
    => /\ call.outcome.ok
       /\ call.outcome.value = StatedBasePay(call.employee) * GrossDen

C7_Witness ==
    /\ IsGrossCall /\ call.employee.bonuses = <<>>
    /\ call.employee.base_salary_type = "daily"
    /\ call.employee.hours_worked # None /\ call.employee.days_worked # None
    /\ Val(call.employee.hours_worked) # Val(call.employee.days_worked)
    /\ call.employee.base_salary_value = 2
    /\ call.outcome.ok
    /\ call.outcome.value = 2 * Val(call.employee.days_worked) * GrossDen
    /\ call.outcome.value > 0

C7_WitnessMonthly ==
    /\ IsGrossCall /\ call.employee.bonuses = <<>>
    /\ call.employee.base_salary_type = "monthly"
    /\ call.employee.hours_worked = Some(2) /\ call.employee.days_worked = None
    /\ call.employee.base_salary_value = 2
    /\ call.outcome.ok /\ call.outcome.value = 2 * GrossDen

(* the running total after the first n bonuses, in 1/GrossDen *)
RECURSIVE RunningTotal(_, _, _)
RunningTotal(base, bonuses, n) ==
    IF n = 0 THEN base
    ELSE LET before == RunningTotal(base, bonuses, n - 1)
             b == bonuses[n]
         IN  CASE b.type = "amount"     -> before + b.value * GrossDen
               [] b.type = "percentage" -> (before * (BonusDen + b.value)) \div BonusDen
               [] OTHER                 -> before

AmountThenPercentage ==
    << [type |-> "amount", value |-> Example.bonus], [type |-> "percentage", value |-> 1] >>
PercentageThenAmount ==
    << [type |-> "percentage", value |-> 1], [type |-> "amount", value |-> Example.bonus] >>

IsExampleEmployee(e) ==
    e.base_salary_type = "monthly" /\ e.base_salary_value = Example.salary

(* C8: bonuses are folded in list order over a running total; an amount bonus
   adds its value, a percentage bonus adds value * (running total so far).
   Monthly 1000 with [amount 100, percentage 0.10] gives 1210, the reversed
   list gives 1200. *)
C8_BonusesInListOrder ==
    (IsGrossCall /\ HasInputs(call.employee)) =>
        /\ call.outcome.ok
        /\ call.outcome.value =
              RunningTotal(StatedBasePay(call.employee) * GrossDen,
                           call.employee.bonuses, Len(call.employee.bonuses))
        /\ (IsExampleEmployee(call.employee) /\ call.employee.bonuses = AmountThenPercentage)
              => call.outcome.value = 1210 * GrossDen
        /\ (IsExampleEmployee(call.employee) /\ call.employee.bonuses = PercentageThenAmount)
              => call.outcome.value = 1200 * GrossDen

C8_Witness ==
    /\ IsGrossCall
    /\ IsExampleEmployee(call.employee)
    /\ call.employee.bonuses = AmountThenPercentage
    /\ call.outcome.ok /\ call.outcome.value = 1210 * GrossDen

C8_WitnessReversed ==
    /\ IsGrossCall
    /\ IsExampleEmployee(call.employee)
    /\ call.employee.bonuses = PercentageThenAmount
    /\ call.outcome.ok /\ call.outcome.value = 1200 * GrossDen

(* C9: an hourly employee without hours_worked, or a daily employee without
   days_worked, fails with the missing-input error from the gross-pay
   calculation; calculate_payroll fails with the same error and yields no
   PayrollResult. *)
C9_MissingInputFails ==
    ((IsGrossCall \/ IsPayrollCall) /\ ~HasInputs(call.employee))
    => /\ ~call.outcome.ok
       /\ call.outcome.error = "ValueError"
       /\ call.outcome = CalculateGrossPay(call.employee)
       /\ "value" \notin DOMAIN call.outcome

C9_Witness ==
    /\ IsPayrollCall
    /\ call.employee.base_salary_type = "hourly"
    /\ call.employee.hours_worked = None
    /\ call.employee.days_worked # None
    /\ call.employee.base_salary_value > 0
    /\ ~call.outcome.ok /\ call.outcome.error = "ValueError"

C9_WitnessDaily ==
    /\ IsGrossCall
    /\ call.employee.base_salary_type = "daily"
    /\ call.employee.days_worked = None
    /\ call.employee.hours_worked # None
    /\ ~call.outcome.ok /\ call.outcome.error = "ValueError"

(* the gross pay of an employee with its inputs present, as the documentation
   states it, in 1/GrossDen *)
StatedGross(e) ==
    RunningTotal(StatedBasePay(e) * GrossDen, e.bonuses, Len(e.bonuses))

IsPayrollResult == IsPayrollCall /\ call.outcome.ok

(* the amount stored under a key of a breakdown *)
AmountOf(breakdown, name) ==
    breakdown[CHOOSE i \in 1..Len(breakdown) : breakdown[i].name = name].amount

(* gross pays a result is compared with, in 1/GrossDen *)
ComparisonGross(gross) ==
    { k * GrossDen : k \in 0..(MaxSalary * MaxHours) }
        \cup {Example.salary * GrossDen, gross + 1, Max(0, gross - 1)}

(* C11: the employee social security tax is min(gross * employee_rate,
   max_employee_contribution): it never exceeds the cap, it does not decrease
   when the gross pay grows, and it equals the cap exactly when
   gross * employee_rate >= cap. *)
C11_EmployeeShareCapped ==
    (IsPayrollResult /\ config.social_security.max_employee_contribution # None) =>
        LET gross == StatedGross(call.employee)
            rate == config.social_security.employee_rate
            cap == Val(config.social_security.max_employee_contribution) * FineDen
            share == AmountOf(call.outcome.value.taxes_breakdown, EmployeeSocialSecurityKey)
        IN  /\ share = Min(gross * rate, cap)
            /\ share <= cap
            /\ (share = cap) <=> (gross * rate >= cap)
            /\ \A g \in ComparisonGross(gross) :
                  LET other == CalculateEmployeeSocialSecurityTax(calculator, g) IN
                  /\ g <= gross => other <= share
                  /\ g >= gross => other >= share

C11_Witness ==
    /\ IsPayrollResult
    /\ config.social_security.max_employee_contribution # None
    /\ LET cap == Val(config.social_security.max_employee_contribution) * FineDen IN
       /\ cap > 0
       /\ StatedGross(call.employee) * config.social_security.employee_rate > cap
       /\ AmountOf(call.outcome.value.taxes_breakdown, EmployeeSocialSecurityKey) = cap

(* the rule file with other employer settings and everything else alike *)
WithEmployerSettings(cfg, rate, max_contribution) ==
    [cfg EXCEPT !.social_security.employer_rate = rate,
                !.social_security.max_employer_contribution = max_contribution]

(* employer settings as <<employer_rate, max_employer_contribution>> *)
EmployerSettings == { <<0, Some(1)>>, <<RateDen, None>> }

(* C12: the employer contribution is min(gross * employer_rate,
   max_employer_contribution); it is reported only in
   employer_contributions_breakdown and is not subtracted from the net pay:
   rule files that differ only in the employer settings give the same net_pay,
   taxes_breakdown and deductions_breakdown for an employee. *)
C12_EmployerShareReportedOnly ==
    (IsPayrollResult /\ config.social_security.max_employer_contribution # None) =>
        LET gross == StatedGross(call.employee)
            result == call.outcome.value
            cap == Val(config.social_security.max_employer_contribution) * FineDen
        IN  /\ result.employer_contributions_breakdown =
                  << [name |-> EmployerSocialSecurityKey,
                      amount |-> Min(gross * config.social_security.employer_rate, cap)] >>
            /\ \A i \in 1..Len(result.taxes_breakdown) :
                  result.taxes_breakdown[i].name # EmployerSocialSecurityKey
            /\ \A i \in 1..Len(result.deductions_breakdown) :
                  result.deductions_breakdown[i].name # EmployerSocialSecurityKey
            /\ \A settings \in EmployerSettings :
                  LET other == CalculatePayroll(
                                   NewPayrollCalculator(
                                       WithEmployerSettings(config, settings[1], settings[2])),
                                   call.employee)
                  IN  /\ other.ok
                      /\ other.value.net_pay = result.net_pay
                      /\ other.value.taxes_breakdown = result.taxes_breakdown
                      /\ other.value.deductions_breakdown = result.deductions_breakdown

C12_Witness ==
    /\ IsPayrollResult
    /\ LET result == call.outcome.value
           other == CalculatePayroll(
                        NewPayrollCalculator(WithEmployerSettings(config, RateDen, None)),
                        call.employee).value
       IN  /\ AmountOf(result.employer_contributions_breakdown, EmployerSocialSecurityKey) > 0
           /\ AmountOf(other.employer_contributions_breakdown, EmployerSocialSecurityKey)
                 > AmountOf(result.employer_contributions_breakdown, EmployerSocialSecurityKey)
           /\ other.net_pay = result.net_pay
           /\ result.net_pay > 0

(* the sum of the first n amounts of a breakdown *)
RECURSIVE TotalOfFirst(_, _)
TotalOfFirst(breakdown, n) ==
    IF n = 0 THEN 0 ELSE TotalOfFirst(breakdown, n - 1) + breakdown[n].amount

Total(breakdown) == TotalOfFirst(breakdown, Len(breakdown))

(* C13: net_pay = gross_pay - sum(taxes_breakdown) - sum(deductions_breakdown)
   exactly; there is no floor at zero, so the net pay is negative when taxes
   plus deductions exceed the gross pay. *)
C13_NetPayIdentity ==
    IsPayrollResult =>
        LET result == call.outcome.value
            withheld == Total(result.taxes_breakdown) + Total(result.deductions_breakdown)
        IN  /\ result.gross_pay = StatedGross(call.employee) * RateDen
            /\ result.net_pay = result.gross_pay - withheld
            /\ withheld > result.gross_pay => result.net_pay < 0

C13_Witness ==
    /\ IsPayrollResult
    /\ LET result == call.outcome.value IN
       /\ result.gross_pay > 0
       /\ Total(result.taxes_breakdown) > 0
       /\ Total(result.taxes_breakdown) + Total(result.deductions_breakdown)
             > result.gross_pay
       /\ result.net_pay < 0

(* a deduction as the documentation states it: an absolute amount when
   fixed, gross * rate when percentage; gross in 1/GrossDen, result in fine
   units *)
StatedDeduction(type, number, gross) ==
    IF type = "fixed" THEN number * FineDen ELSE gross * number

StatedDefaultDeduction(ded_info, gross) ==
    StatedDeduction(ded_info.type,
                    IF ded_info.type = "fixed" THEN Val(ded_info.amount) ELSE Val(ded_info.rate),
                    gross)

NamesOf(s) == { s[i].name : i \in 1..Len(s) }

(* the last element of a list that carries a name *)
LastNamed(s, name) ==
    s[CHOOSE i \in 1..Len(s) :
        /\ s[i].name = name
        /\ \A j \in (i + 1)..Len(s) : s[j].name # name]

(* C14: a custom deduction with the name of a default deduction replaces it:
   the breakdown has exactly one entry for that name and it carries the custom
   value; of several custom deductions with one name the last wins; a name
   that is only a default or only custom appears exactly once. *)
C14_DeductionsKeyedByName ==
    IsPayrollResult =>
        LET breakdown == call.outcome.value.deductions_breakdown
            custom == call.employee.custom_deductions
            names == NamesOf(config.deductions) \cup NamesOf(custom)
        IN  /\ NamesOf(breakdown) = names
            /\ \A name \in names :
                  Cardinality({ i \in 1..Len(breakdown) : breakdown[i].name = name }) = 1
            /\ \A name \in NamesOf(custom) :
                  LET last == LastNamed(custom, name) IN
                  AmountOf(breakdown, name) =
                      StatedDeduction(last.type, last.value, StatedGross(call.employee))

C14_Witness ==
    /\ IsPayrollResult
    /\ StatedGross(call.employee) > 0
    /\ LET breakdown == call.outcome.value.deductions_breakdown
           custom == call.employee.custom_deductions
       IN  /\ \E name \in NamesOf(custom) \cap NamesOf(config.deductions) :
                 AmountOf(breakdown, name)
                     # StatedDefaultDeduction(LastNamed(config.deductions, name),
                                              StatedGross(call.employee))
           /\ \E i, j \in 1..Len(custom) :
                 /\ i < j /\ custom[i].name = custom[j].name
                 /\ AmountOf(breakdown, custom[i].name)
                       # StatedDeduction(custom[i].type, custom[i].value,
                                         StatedGross(call.employee))
           /\ NamesOf(config.deductions) \ NamesOf(custom) # {}
           /\ NamesOf(custom) \ NamesOf(config.deductions) # {}
           /\ Len(breakdown) = 3

(* the rule behind an entry of deductions_breakdown: the last custom
   deduction of that name, else the default of that name *)
RuleOf(cfg, custom, name) ==
    IF name \in NamesOf(custom)
    THEN LET last == LastNamed(custom, name) IN [type |-> last.type, number |-> last.value]
    ELSE LET ded_info == LastNamed(cfg.deductions, name) IN
         [type |-> ded_info.type,
          number |-> IF ded_info.type = "fixed" THEN Val(ded_info.amount)
                     ELSE Val(ded_info.rate)]

(* C15: every deduction is an absolute amount when its type is fixed and
   gross * rate when its type is percentage, where gross is the gross pay
   with the bonuses included. *)
C15_DeductionAmounts ==
    IsPayrollResult =>
        LET result == call.outcome.value
            breakdown == result.deductions_breakdown
        IN  /\ result.gross_pay = StatedGross(call.employee) * RateDen
            /\ \A i \in 1..Len(breakdown) :
                  LET rule == RuleOf(config, call.employee.custom_deductions,
                                     breakdown[i].name)
                  IN  /\ rule.type = "fixed" => breakdown[i].amount = rule.number * FineDen
                      /\ rule.type = "percentage" =>
                             breakdown[i].amount = (result.gross_pay \div RateDen) * rule.number

C15_Witness ==
    /\ IsPayrollResult
    /\ \E b \in 1..Len(call.employee.bonuses) : call.employee.bonuses[b].type = "percentage"
    /\ StatedGross(call.employee) > StatedBasePay(call.employee) * GrossDen
    /\ LET breakdown == call.outcome.value.deductions_breakdown IN
       \E i, j \in 1..Len(breakdown) :
          /\ RuleOf(config, call.employee.custom_deductions, breakdown[i].name)
                = [type |-> "percentage", number |-> 10]
          /\ breakdown[i].amount = StatedGross(call.employee) * 10
          /\ breakdown[i].amount > StatedBasePay(call.employee) * GrossDen * 10
          /\ RuleOf(config, call.employee.custom_deductions, breakdown[j].name).type = "fixed"
          /\ breakdown[j].amount = 50 * FineDen

(* C16: taxes_breakdown has exactly two entries in a fixed order, the income
   tax first and the employee social security tax second; neither is left
   out when its amount is 0. *)
C16_TwoTaxEntries ==
    IsPayrollResult =>
        LET taxes == call.outcome.value.taxes_breakdown IN
        /\ Len(taxes) = 2
        /\ taxes[1].name = IncomeTaxKey
        /\ taxes[2].name = EmployeeSocialSecurityKey
        /\ IncomeTaxKey # EmployeeSocialSecurityKey

C16_Witness ==
    /\ IsPayrollResult
    /\ call.outcome.value.gross_pay = 0
    /\ call.outcome.value.taxes_breakdown =
          << [name |-> IncomeTaxKey, amount |-> 0],
             [name |-> EmployeeSocialSecurityKey, amount |-> 0] >>

IsSummaryCall == call.op = "get_summary"

NameList(s) == [i \in 1..Len(s) |-> s[i].name]

(* the first n names of a list, each kept where it occurs first *)
RECURSIVE FirstOccurrences(_, _)
FirstOccurrences(names, n) ==
    IF n = 0 THEN <<>>
    ELSE LET before == FirstOccurrences(names, n - 1) IN
         IF \E i \in 1..Len(before) : before[i] = names[n] THEN before
         ELSE Append(before, names[n])

(* the order in which the deduction names are assembled: the defaults in the
   order of the rule file, then the custom deductions in list order *)
AssembledNames(cfg, custom) ==
    LET names == NameList(cfg.deductions) \o NameList(custom) IN
    FirstOccurrences(names, Len(names))

HasAmount(summary_line) == summary_line.text # None

(* what a line with an amount is about *)
SubjectOf(summary_line) ==
    IF summary_line.line = "item" THEN summary_line.label ELSE summary_line.line

(* C17: the summary lists, in this order, the gross pay, each tax in the order
   of taxes_breakdown, each deduction in the order the deductions were
   assembled (defaults in the order of the rule file, then custom deductions
   in list order), the net pay, and the employer contributions only when
   employer_contributions_breakdown is not empty. *)
C17_SummaryOrder ==
    IsSummaryCall =>
        LET amounts == SelectSeq(call.summary, HasAmount)
            employer == call.result.employer_contributions_breakdown
        IN  /\ [i \in 1..Len(amounts) |-> SubjectOf(amounts[i])] =
                  << "gross_pay" >>
                  \o NameList(call.result.taxes_breakdown)
                  \o AssembledNames(config, call.employee.custom_deductions)
                  \o << "net_pay" >>
                  \o NameList(employer)
            /\ (\E i \in 1..Len(call.summary) : call.summary[i].line = "employer_contributions")
                  <=> employer # <<>>
            /\ employer = <<>> => call.summary[Len(call.summary)].line = "net_pay"

C17_Witness ==
    /\ IsSummaryCall
    /\ NamesOf(call.employee.custom_deductions) \cap NamesOf(config.deductions) # {}
    /\ NamesOf(call.employee.custom_deductions) \ NamesOf(config.deductions) # {}
    /\ Len(call.employee.custom_deductions) = 3
    /\ call.result.employer_contributions_breakdown # <<>>
    /\ Len(call.summary) = 11
    /\ call.summary[Len(call.summary)].label = EmployerSocialSecurityKey
    /\ call.result.gross_pay > 0

C17_WitnessNoEmployer ==
    /\ IsSummaryCall
    /\ call.result.employer_contributions_breakdown = <<>>
    /\ call.employee.custom_deductions = <<>>
    /\ Len(call.summary) = 8
    /\ call.summary[8].line = "net_pay"

----------------------------------------------------------------------------
(* PayrollSystem: the employee registry and process_all_payroll *)

MaxEmployees == 2

(* employee ids; EmptyId is the empty string of the id entry *)
Ids == 1..MaxEmployees
EmptyId == 0

SalaryTypes == {"monthly", "hourly", "daily"}

(* faulty variant: the pay basis is not checked *)
NewEmployeeUnchecked(employee_id, name, base_salary_type, base_salary_value, bonuses, custom_deductions, hours_worked, days_worked, tax_exemptions) ==
    Ok([employee_id |-> employee_id,
        name |-> name,
        base_salary_type |-> base_salary_type,
        base_salary_value |-> base_salary_value,
        bonuses |-> bonuses,
        custom_deductions |-> custom_deductions,
        hours_worked |-> hours_worked,
        days_worked |-> days_worked,
        tax_exemptions |-> tax_exemptions])

(* Employee.__init__ *)
NewEmployee(employee_id, name, base_salary_type, base_salary_value, bonuses, custom_deductions, hours_worked, days_worked, tax_exemptions) ==
    IF base_salary_type \notin SalaryTypes THEN Raise("ValueError")
    ELSE Ok([employee_id |-> employee_id,
             name |-> name,
             base_salary_type |-> base_salary_type,
             base_salary_value |-> base_salary_value,
             bonuses |-> bonuses,
             custom_deductions |-> custom_deductions,
             hours_worked |-> hours_worked,
             days_worked |-> days_worked,
             tax_exemptions |-> tax_exemptions])

(* faulty variant: the employee is always added at the end *)
RegistrySetAppending(registry, employee) == Append(registry, employee)

(* self.employees[employee.employee_id] = employee, on an insertion-ordered dict *)
RegistrySet(registry, employee) ==
    IF \E i \in 1..Len(registry) : registry[i].employee_id = employee.employee_id
    THEN [i \in 1..Len(registry) |->
             IF registry[i].employee_id = employee.employee_id THEN employee ELSE registry[i]]
    ELSE Append(registry, employee)

RegistryHas(registry, employee_id) ==
    \E i \in 1..Len(registry) : registry[i].employee_id = employee_id

(* get_employee; only called here for an id that is present *)
GetEmployee(registry, employee_id) ==
    registry[CHOOSE i \in 1..Len(registry) : registry[i].employee_id = employee_id]

RECURSIVE RegistryDelete(_, _)
RegistryDelete(registry, employee_id) ==
    IF registry = <<>> THEN <<>>
    ELSE IF registry[1].employee_id = employee_id THEN Tail(registry)
    ELSE <<registry[1]>> \o RegistryDelete(Tail(registry), employee_id)

(* Employee.from_dict *)
FromDict(data) ==
    NewEmployee(data.employee_id, data.name, data.base_salary_type, data.base_salary_value,
                data.bonuses, data.custom_deductions, data.hours_worked, data.days_worked,
                data.tax_exemptions)

(* _load_employees: Employee.from_dict for each entry of the file, in order;
   the ValueError of Employee.__init__ is not caught *)
RECURSIVE LoadEmployeesFrom(_, _, _)
LoadEmployeesFrom(data, i, registry) ==
    IF i > Len(data) THEN Ok(registry)
    ELSE LET employee == FromDict(data[i]) IN
         IF ~employee.ok THEN employee
         ELSE LoadEmployeesFrom(data, i + 1, RegistrySet(registry, employee.value))

LoadEmployees(data) == LoadEmployeesFrom(data, 1, <<>>)

RECURSIVE ProcessFromAborting(_, _, _, _, _)
ProcessFromAborting(calc, registry, i, all_payroll_results, errors) ==
    IF i > Len(registry) THEN [result |-> all_payroll_results, errors |-> errors]
    ELSE LET employee == registry[i]
             outcome == CalculatePayroll(calc, employee)
         IN  IF outcome.ok
             THEN ProcessFromAborting(calc, registry, i + 1,
                      Append(all_payroll_results,
                             [employee_id |-> employee.employee_id, result |-> outcome.value]),
                      errors)
             ELSE [result |-> all_payroll_results,
                   errors |-> Append(errors, employee.employee_id)]

(* faulty variant: the first failing employee ends the pass *)
ProcessAllPayrollAborting(calc, registry) == ProcessFromAborting(calc, registry, 1, <<>>, <<>>)

(* the loop of process_all_payroll: a ValueError and any other exception are
   both caught, reported for that employee, and the loop goes on *)
RECURSIVE ProcessFrom(_, _, _, _, _)
ProcessFrom(calc, registry, i, all_payroll_results, errors) ==
    IF i > Len(registry) THEN [result |-> all_payroll_results, errors |-> errors]
    ELSE LET employee == registry[i]
             outcome == CalculatePayroll(calc, employee)
         IN  IF outcome.ok
             THEN ProcessFrom(calc, registry, i + 1,
                      Append(all_payroll_results,
                             [employee_id |-> employee.employee_id, result |-> outcome.value]),
                      errors)
             ELSE ProcessFrom(calc, registry, i + 1, all_payroll_results,
                      Append(errors, employee.employee_id))

(* faulty variant: the newest result is put in front of the map *)
ProcessAllPayrollNewestFirst(calc, registry) ==
    LET processed == ProcessFrom(calc, registry, 1, <<>>, <<>>) IN
    [result |-> [i \in 1..Len(processed.result) |->
                    processed.result[Len(processed.result) + 1 - i]],
     errors |-> processed.errors]

ProcessAllPayroll(calc, registry) ==
    IF registry = <<>> THEN [result |-> <<>>, errors |-> <<>>]
    ELSE ProcessFrom(calc, registry, 1, <<>>, <<>>)

----------------------------------------------------------------------------
(* The employee file read at start-up and the entries of the main form *)

FileBonus == << [type |-> "percentage", value |-> 5] >>

FileDeduction == << [name |-> "union", type |-> "fixed", value |-> 1] >>

FileEmployees ==
    { [employee_id |-> id, name |-> "Ann", base_salary_type |-> "hourly",
       base_salary_value |-> 2, bonuses |-> <<>>, custom_deductions |-> FileDeduction,
       hours_worked |-> None, days_worked |-> None, tax_exemptions |-> 0] : id \in Ids }
    \cup
    { [employee_id |-> id, name |-> "Ann", base_salary_type |-> "monthly",
       base_salary_value |-> 2, bonuses |-> FileBonus, custom_deductions |-> <<>>,
       hours_worked |-> None, days_worked |-> None, tax_exemptions |-> 0] : id \in Ids }

EmployeeFiles == SeqsUpTo(FileEmployees, MaxEmployees)

(* an entry of the form: None is an empty or non-numeric text *)
SalaryEntries == {None, Some(-1), Some(2)}
HoursEntries == {None, Some(-1), Some(3)}
DaysEntries == {None, Some(-1), Some(4)}
ExemptionEntries == {None, Some(-1)}
NameEntries == {"", "Ann"}

FormFields ==
    {"employee_id", "name", "base_salary_value", "hours_worked", "days_worked", "tax_exemptions"}

(* the checks of _add_employee_gui, one per entry *)
FieldRejected(f, field) ==
    CASE field = "employee_id" -> f.employee_id = EmptyId
      [] field = "name" -> f.name = ""
      [] field = "base_salary_value" ->
            f.base_salary_value = None \/ Val(f.base_salary_value) < 0
      [] field = "hours_worked" ->
            f.base_salary_type = "hourly"
              /\ (f.hours_worked = None \/ Val(f.hours_worked) < 0)
      [] field = "days_worked" ->
            f.base_salary_type = "daily"
              /\ (f.days_worked = None \/ Val(f.days_worked) < 0)
      [] field = "tax_exemptions" ->
            f.tax_exemptions # None /\ Val(f.tax_exemptions) < 0

InvalidFields(f) == { field \in FormFields : FieldRejected(f, field) }

FormIsValid(f) == InvalidFields(f) = {}

(* the forms submitted: every valid form, and every form with one bad entry.
   The hours / days entry is read only for an hourly / daily employee. *)
Forms ==
    { f \in [employee_id : Ids \cup {EmptyId},
             name : NameEntries,
             base_salary_type : SalaryTypes,
             base_salary_value : SalaryEntries,
             hours_worked : HoursEntries,
             days_worked : DaysEntries,
             tax_exemptions : ExemptionEntries] :
        /\ f.base_salary_type # "hourly" => f.hours_worked = None
        /\ f.base_salary_type # "daily" => f.days_worked = None
        /\ Cardinality(InvalidFields(f)) <= 1 }

----------------------------------------------------------------------------
(* Specification of the system: PayrollSystem.__init__ loads the rule file
   and the employee file; the main form adds, updates and deletes employees;
   process_all_payroll calculates the registry. *)

(* the application did not start: PayrollSystem.__init__ raised *)
StartupFailed == [op |-> "__init__", error |-> "ValueError"]

Running == call # StartupFailed

(* PayrollSystem.__init__ reading the employee file *)
Started(data) ==
    LET loaded == LoadEmployees(data) IN
    IF loaded.ok THEN employees = loaded.value /\ call = NoCall
    ELSE employees = <<>> /\ call = StartupFailed

Init ==
    /\ config \in PayrollConfigs
    /\ calculator = NewPayrollCalculator(config)
    /\ \E data \in EmployeeFiles : Started(data)

(* PayrollApp._add_employee_gui with PayrollSystem.add_employee *)
AddEmployeeGuiWith(forms) ==
    /\ Running
    /\ \E f \in forms :
        IF ~FormIsValid(f)
        THEN /\ call' = [op |-> "_add_employee_gui", employee_id |-> f.employee_id,
                         accepted |-> FALSE]
             /\ UNCHANGED <<config, calculator, employees>>
        ELSE LET existing == RegistryHas(employees, f.employee_id)
                 bonuses == IF existing THEN GetEmployee(employees, f.employee_id).bonuses
                            ELSE <<>>
                 custom_deductions ==
                     IF existing THEN GetEmployee(employees, f.employee_id).custom_deductions
                     ELSE <<>>
                 employee ==
                     NewEmployee(f.employee_id, f.name, f.base_salary_type,
                                 Val(f.base_salary_value), bonuses, custom_deductions,
                                 f.hours_worked, f.days_worked,
                                 IF f.tax_exemptions = None THEN 0 ELSE Val(f.tax_exemptions))
             IN  /\ employees' = RegistrySet(employees, employee.value)
                 /\ call' = [op |-> "_add_employee_gui", employee_id |-> f.employee_id,
                             accepted |-> TRUE]
                 /\ UNCHANGED <<config, calculator>>

AddEmployeeGui == AddEmployeeGuiWith(Forms)

(* PayrollSystem.delete_employee *)
DeleteEmployee ==
    /\ Running
    /\ \E employee_id \in Ids :
        /\ employees' = IF RegistryHas(employees, employee_id)
                        THEN RegistryDelete(employees, employee_id)
                        ELSE employees
        /\ call' = [op |-> "delete_employee", employee_id |-> employee_id,
                    returned |-> RegistryHas(employees, employee_id)]
        /\ UNCHANGED <<config, calculator>>

(* faulty variant: the calculation uses up the bonuses of the employees *)
ProcessAllPayrollCallConsumingBonuses ==
    /\ call' = [op |-> "process_all_payroll"] @@ ProcessAllPayroll(calculator, employees)
    /\ employees' = [i \in 1..Len(employees) |-> [employees[i] EXCEPT !.bonuses = <<>>]]
    /\ UNCHANGED <<config, calculator>>

(* faulty variant: an employee whose calculation fails is dropped from the registry *)
ProcessAllPayrollCallDroppingFailed ==
    /\ call' = [op |-> "process_all_payroll"] @@ ProcessAllPayroll(calculator, employees)
    /\ employees' = SelectSeq(employees, LAMBDA e : CalculatePayroll(calculator, e).ok)
    /\ UNCHANGED <<config, calculator>>

(* the configuration editor is a modal window: it is open after it was
   opened and after each of its handlers except an accepted Save and Cancel *)
EditorOpen ==
    \/ call.op \in {"_open_config_editor_window", "add_tax_bracket", "remove_tax_bracket",
                     "add_default_deduction", "remove_default_deduction"}
    \/ call.op = "save_config_and_close" /\ ~call.accepted

(* PayrollSystem.process_all_payroll *)
ProcessAllPayrollCall ==
    /\ Running
    /\ ~EditorOpen
    /\ call' = [op |-> "process_all_payroll"] @@ ProcessAllPayroll(calculator, employees)
    /\ UNCHANGED <<config, calculator, employees>>

Next == AddEmployeeGui \/ DeleteEmployee \/ ProcessAllPayrollCall

Spec == Init /\ [][Next]_vars

----------------------------------------------------------------------------
(* The configuration editor. Its handlers edit config_loader.config, the
   rules held in memory; Save writes them to the rule file and constructs a
   new calculator from that file. *)

(* the order in which yaml.safe_dump writes the keys of the deductions *)
KeyOrder == << "health_insurance", "pension", "union" >>

(* faulty variant: the deductions are not written to the file *)
YamlRoundTripLosingDeductions(cfg) == [cfg EXCEPT !.deductions = <<>>]

(* save_config followed by ConfigLoader._load_config: lists keep their order,
   the keys of a mapping come back sorted *)
YamlRoundTrip(cfg) ==
    LET present == SelectSeq(KeyOrder, LAMBDA name : name \in { cfg.deductions[i].name : i \in 1..Len(cfg.deductions) })
    IN  [cfg EXCEPT !.deductions =
            [k \in 1..Len(present) |->
                cfg.deductions[CHOOSE i \in 1..Len(cfg.deductions) :
                                   cfg.deductions[i].name = present[k]]]]

(* the bracket and the deduction typed into the dialogs, with a rate or a
   type that is refused *)
NewBracket == [min_income |-> 1, max_income |-> None, rate |-> 20]
BracketDialogs == { NewBracket, [NewBracket EXCEPT !.rate = RateDen + 1] }
DeductionDialogs == { [name |-> "union", type |-> t, value |-> 1] : t \in {"fixed", "other"} }

(* the rows selected for removal *)
RemovableBrackets == { NewBracket, [min_income |-> 2, max_income |-> None, rate |-> 50] }
RemovableDeductions == { "pension" }

(* the employee-rate entry at Save, in percent: left as shown, changed, or out of range *)
EmployeeRateEntries(cfg) == { cfg.social_security.employee_rate, 50, RateDen + 50 }

OpenConfigEditor ==
    /\ Running
    /\ ~EditorOpen
    /\ call' = [op |-> "_open_config_editor_window"]
    /\ UNCHANGED <<config, calculator, employees>>

AddTaxBracket ==
    /\ EditorOpen
    /\ Len(config.tax_brackets) < MaxBrackets
    /\ \E b \in BracketDialogs :
          IF b.rate < 0 \/ b.rate > RateDen
          THEN /\ call' = [op |-> "add_tax_bracket", accepted |-> FALSE]
               /\ UNCHANGED config
          ELSE /\ config' = [config EXCEPT !.tax_brackets =
                                 SortedByMinIncome(Append(config.tax_brackets, b))]
               /\ call' = [op |-> "add_tax_bracket", accepted |-> TRUE]
    /\ UNCHANGED <<calculator, employees>>

(* every bracket equal to the selected row is removed *)
RemoveTaxBracket ==
    /\ EditorOpen
    /\ \E i \in 1..Len(config.tax_brackets) :
          /\ config.tax_brackets[i] \in RemovableBrackets
          /\ config' = [config EXCEPT !.tax_brackets =
                            SelectSeq(config.tax_brackets,
                                      LAMBDA b : b # config.tax_brackets[i])]
    /\ call' = [op |-> "remove_tax_bracket"]
    /\ UNCHANGED <<calculator, employees>>

(* config['deductions'][name] = {...} on an insertion-ordered dict *)
DeductionsSet(deductions, entry) ==
    IF \E i \in 1..Len(deductions) : deductions[i].name = entry.name
    THEN [i \in 1..Len(deductions) |->
             IF deductions[i].name = entry.name THEN entry ELSE deductions[i]]
    ELSE Append(deductions, entry)

AddDefaultDeduction ==
    /\ EditorOpen
    /\ \E ded \in DeductionDialogs :
          IF ded.type \notin {"fixed", "percentage"}
             \/ (ded.type = "percentage" /\ (ded.value < 0 \/ ded.value > RateDen))
          THEN /\ call' = [op |-> "add_default_deduction", accepted |-> FALSE]
               /\ UNCHANGED config
          ELSE /\ config' = [config EXCEPT !.deductions =
                                 DeductionsSet(config.deductions,
                                     [name |-> ded.name, type |-> ded.type,
                                      rate |-> IF ded.type = "fixed" THEN None
                                               ELSE Some(ded.value),
                                      amount |-> IF ded.type = "fixed" THEN Some(ded.value)
                                                 ELSE None])]
               /\ call' = [op |-> "add_default_deduction", accepted |-> TRUE]
    /\ UNCHANGED <<calculator, employees>>

RemoveDefaultDeduction ==
    /\ EditorOpen
    /\ \E i \in 1..Len(config.deductions) :
          /\ config.deductions[i].name \in RemovableDeductions
          /\ config' = [config EXCEPT !.deductions =
                            SelectSeq(config.deductions,
                                      LAMBDA d : d.name # config.deductions[i].name)]
    /\ call' = [op |-> "remove_default_deduction"]
    /\ UNCHANGED <<calculator, employees>>

(* faulty variant: the calculator is not constructed again *)
SaveConfigAndCloseKeepingCalculator ==
    /\ EditorOpen
    /\ \E employee_rate \in EmployeeRateEntries(config) :
          /\ config' = [config EXCEPT !.social_security.employee_rate = employee_rate]
          /\ call' = [op |-> "save_config_and_close",
                      accepted |-> (0 <= employee_rate /\ employee_rate <= RateDen)]
    /\ UNCHANGED <<calculator, employees>>

(* save_config_and_close: the entries are written into the rules in memory,
   then the rates are checked, then the file is written and read back *)
SaveConfigAndClose ==
    /\ EditorOpen
    /\ \E employee_rate \in EmployeeRateEntries(config) :
          /\ config' = [config EXCEPT !.social_security.employee_rate = employee_rate]
          /\ IF 0 <= employee_rate /\ employee_rate <= RateDen
             THEN /\ calculator' = NewPayrollCalculator(YamlRoundTrip(config'))
                  /\ call' = [op |-> "save_config_and_close", accepted |-> TRUE]
             ELSE /\ calculator' = calculator
                  /\ call' = [op |-> "save_config_and_close", accepted |-> FALSE]
    /\ UNCHANGED employees

(* the Cancel button and the close button destroy the window *)
CancelConfigEditor ==
    /\ EditorOpen
    /\ call' = [op |-> "cancel_config_editor"]
    /\ UNCHANGED <<config, calculator, employees>>

(* rule files with a default deduction of a bad shape *)
UnknownTypeConfig ==
    [SmallConfig EXCEPT !.deductions[2] =
        [name |-> "health_insurance", type |-> "weekly", rate |-> None, amount |-> Some(50)]]
MissingAmountConfig ==
    [SmallConfig EXCEPT !.deductions[2] =
        [name |-> "health_insurance", type |-> "fixed", rate |-> None, amount |-> None]]

ConfigFiles == {SmallConfig, UnknownTypeConfig, MissingAmountConfig}

(* the employee files of the sessions in which the rules are edited *)
ConfigSessionFiles ==
    { << [employee_id |-> 1, name |-> "Ann", base_salary_type |-> "monthly",
          base_salary_value |-> 3, bonuses |-> FileBonus, custom_deductions |-> <<>>,
          hours_worked |-> None, days_worked |-> None, tax_exemptions |-> 0],
         [employee_id |-> 2, name |-> "Bob", base_salary_type |-> "daily",
          base_salary_value |-> 1, bonuses |-> <<>>, custom_deductions |-> FileDeduction,
          hours_worked |-> None, days_worked |-> Some(2), tax_exemptions |-> 1] >> }

InitConfig ==
    /\ config \in ConfigFiles
    /\ calculator = NewPayrollCalculator(config)
    /\ \E data \in ConfigSessionFiles : Started(data)

NextConfig ==
    \/ OpenConfigEditor \/ AddTaxBracket \/ RemoveTaxBracket
    \/ AddDefaultDeduction \/ RemoveDefaultDeduction
    \/ SaveConfigAndClose \/ CancelConfigEditor
    \/ ProcessAllPayrollCall

SpecConfig == InitConfig /\ [][NextConfig]_vars

----------------------------------------------------------------------------
(* The employee-details dialog: save_and_close writes the entries into the
   employee of the registry one after the other and stops at the first one
   that is refused. *)

(* the text of an entry *)
Empty == [kind |-> "empty"]
NotANumber == [kind |-> "text"]
Number(n) == [kind |-> "number", value |-> n]

DetailSalaryEntries == {NotANumber, Number(-1), Number(2)}
DetailHoursEntries == {Empty, NotANumber, Number(-1), Number(3)}
DetailDaysEntries == {Empty, Number(-1), Number(4)}
DetailExemptionEntries == {Empty, Number(-1), Number(0)}

(* the combobox of the dialog is read-only with the three pay bases *)
DetailForms ==
    [name : NameEntries,
     base_salary_type : SalaryTypes,
     base_salary_value : DetailSalaryEntries,
     hours_worked : DetailHoursEntries,
     days_worked : DetailDaysEntries,
     tax_exemptions : DetailExemptionEntries]

Refused(employee) == [accepted |-> FALSE, employee |-> employee]
Accepted(employee) == [accepted |-> TRUE, employee |-> employee]

(* employee.tax_exemptions = float(entry); float of an empty text raises *)
SaveTaxExemptions(employee, f) ==
    IF f.tax_exemptions.kind # "number" THEN Refused(employee)
    ELSE LET assigned == [employee EXCEPT !.tax_exemptions = f.tax_exemptions.value] IN
         IF assigned.tax_exemptions < 0 THEN Refused(assigned) ELSE Accepted(assigned)

(* employee.days_worked = int(text) if text else None *)
SaveDaysWorked(employee, f) ==
    IF f.days_worked.kind = "text" THEN Refused(employee)
    ELSE LET assigned ==
                 [employee EXCEPT !.days_worked =
                     IF f.days_worked.kind = "empty" THEN None
                     ELSE Some(f.days_worked.value)]
         IN  IF assigned.days_worked # None /\ Val(assigned.days_worked) < 0
             THEN Refused(assigned)
             ELSE SaveTaxExemptions(assigned, f)

(* employee.hours_worked = int(text) if text else None *)
SaveHoursWorked(employee, f) ==
    IF f.hours_worked.kind = "text" THEN Refused(employee)
    ELSE LET assigned ==
                 [employee EXCEPT !.hours_worked =
                     IF f.hours_worked.kind = "empty" THEN None
                     ELSE Some(f.hours_worked.value)]
         IN  IF assigned.hours_worked # None /\ Val(assigned.hours_worked) < 0
             THEN Refused(assigned)
             ELSE SaveDaysWorked(assigned, f)

(* employee.base_salary_type = ...; employee.base_salary_value = float(entry) *)
SaveBaseSalary(employee, f) ==
    LET typed == [employee EXCEPT !.base_salary_type = f.base_salary_type] IN
    IF f.base_salary_value.kind # "number" THEN Refused(typed)
    ELSE LET assigned == [typed EXCEPT !.base_salary_value = f.base_salary_value.value] IN
         IF assigned.base_salary_value < 0 THEN Refused(assigned)
         ELSE SaveHoursWorked(assigned, f)

(* the try block of save_and_close up to the call of add_employee *)
SaveEntries(employee, f) ==
    LET named == [employee EXCEPT !.name = f.name] IN
    IF named.name = "" THEN Refused(named) ELSE SaveBaseSalary(named, f)

(* save_and_close on the dialog of the employee at position i of the
   registry; the dialog holds the employee object of the registry itself *)
SaveAndClose ==
    /\ Running
    /\ \E i \in 1..Len(employees) : \E f \in DetailForms :
          LET saved == SaveEntries(employees[i], f) IN
          /\ employees' =
                IF saved.accepted
                THEN RegistrySet([employees EXCEPT ![i] = saved.employee], saved.employee)
                ELSE [employees EXCEPT ![i] = saved.employee]
          /\ call' = [op |-> "save_and_close", employee_id |-> employees[i].employee_id,
                      accepted |-> saved.accepted]
    /\ UNCHANGED <<config, calculator>>

(* the employee files of the sessions in which the dialog is used: no
   employee or one, possibly with a pay basis that is not recognised *)
EditFiles ==
    { <<>> }
    \cup { <<e>> : e \in { d \in FileEmployees : d.employee_id = 1 } }
    \cup { << [employee_id |-> 1, name |-> "Ann", base_salary_type |-> "weekly",
              base_salary_value |-> 2, bonuses |-> <<>>, custom_deductions |-> <<>>,
              hours_worked |-> None, days_worked |-> None, tax_exemptions |-> 0] >> }

InitEdit ==
    /\ config = DefaultConfig
    /\ calculator = NewPayrollCalculator(config)
    /\ \E data \in EditFiles : Started(data)

(* the main form used for the employee of these sessions *)
EditForms == { f \in Forms : f.employee_id \in {1, EmptyId} }

AddEmployeeGuiEdit == AddEmployeeGuiWith(EditForms)

NextEdit == AddEmployeeGuiEdit \/ SaveAndClose \/ DeleteEmployee \/ ProcessAllPayrollCall

SpecEdit == InitEdit /\ [][NextEdit]_vars

----------------------------------------------------------------------------
(* Properties of process_all_payroll, checked under Spec *)

IsProcessCall == call.op = "process_all_payroll"

ResultsFor(employee_id) ==
    { i \in 1..Len(call.result) : call.result[i].employee_id = employee_id }

(* C10: in a batch a failing employee does not abort the pass: every other
   employee of the registry has a PayrollResult in the result map, equal to
   the result of calculating it alone, and the failing employee has no entry. *)
C10_BatchIsolatesFailures ==
    IsProcessCall =>
        \A i \in 1..Len(employees) :
            LET alone == CalculatePayroll(calculator, employees[i]) IN
            IF alone.ok
            THEN /\ Cardinality(ResultsFor(employees[i].employee_id)) = 1
                 /\ \A k \in ResultsFor(employees[i].employee_id) :
                        call.result[k].result = alone.value
            ELSE ResultsFor(employees[i].employee_id) = {}

C10_Witness ==
    /\ IsProcessCall
    /\ Len(employees) >= 2
    /\ ~CalculatePayroll(calculator, employees[1]).ok
    /\ CalculatePayroll(calculator, employees[2]).ok
    /\ call.errors = <<employees[1].employee_id>>
    /\ Len(call.result) = 1
    /\ call.result[1].employee_id = employees[2].employee_id
    /\ call.result[1].result.gross_pay > 0

(* C18: calculation is idempotent and deterministic: process_all_payroll run
   twice on an unchanged registry (and so calculate_payroll run twice on the
   same employee and rules) yields identical results: the same ids, the same
   gross_pay, net_pay and breakdowns with the same keys, order and values. *)
C18_Idempotent ==
    [][(IsProcessCall /\ IsProcessCall')
          => /\ call'.result = call.result
             /\ call'.errors = call.errors]_vars

C18_Witness ==
    /\ IsProcessCall
    /\ \E i \in 1..Len(employees) :
          /\ employees[i].bonuses # <<>>
          /\ \E k \in ResultsFor(employees[i].employee_id) :
                /\ call.result[k].result.gross_pay
                      > employees[i].base_salary_value * FineDen
                /\ Len(call.result[k].result.deductions_breakdown) = 2

(* C19: process_all_payroll, and the calculate_payroll it runs for every
   employee, leave their inputs unchanged: no field of an employee, no entry
   of the registry and no part of the calculator's rules is modified, whether
   a calculation succeeds or fails. *)
C19_InputsUnchanged ==
    [][IsProcessCall'
          => /\ employees' = employees
             /\ calculator' = calculator
             /\ config' = config]_vars

C19_Witness ==
    /\ IsProcessCall
    /\ Len(call.errors) = 1 /\ Len(call.result) = 1
    /\ Len(employees) = 2
    /\ \E i \in 1..2 : employees[i].employee_id = call.errors[1]
                          /\ employees[i].hours_worked = None
                          /\ employees[i].base_salary_type = "hourly"
    /\ calculator = NewPayrollCalculator(config)

(* whether the calculation of an employee of the registry succeeds *)
Succeeds(employee) == CalculatePayroll(calculator, employee).ok

(* C20: the result map of process_all_payroll is keyed by employee id, holds
   only ids of the registry, and iterates in the insertion order of the
   registry restricted to the employees whose calculation succeeded. *)
C20_ResultOrder ==
    IsProcessCall =>
        LET succeeded == SelectSeq(employees, Succeeds) IN
        /\ [k \in 1..Len(call.result) |-> call.result[k].employee_id]
              = [k \in 1..Len(succeeded) |-> succeeded[k].employee_id]
        /\ \A k \in 1..Len(call.result) :
              RegistryHas(employees, call.result[k].employee_id)
        /\ \A k, m \in 1..Len(call.result) :
              call.result[k].employee_id = call.result[m].employee_id => k = m

C20_Witness ==
    /\ IsProcessCall
    /\ Len(employees) = 2
    /\ employees[1].employee_id > employees[2].employee_id
    /\ Len(call.result) = 2
    /\ call.result[1].employee_id = employees[1].employee_id
    /\ call.result[2].employee_id = employees[2].employee_id

IsAddCall == call.op = "_add_employee_gui"
IsDeleteCall == call.op = "delete_employee"

IdList(registry) == [i \in 1..Len(registry) |-> registry[i].employee_id]

(* a list of ids without one id *)
WithoutId(ids, employee_id) == SelectSeq(ids, LAMBDA id : id # employee_id)

(* C30: the registry is keyed by unique id: every key maps to an employee
   with that employee_id; add_employee with an existing id replaces the entry
   without changing the number or order of entries, and the main-form update
   keeps the bonuses and custom deductions of the existing employee;
   delete_employee removes exactly the given id and returns True when it is
   present, and returns False and leaves the registry unchanged when it is
   absent. *)
C30_RegistryKeyedById ==
    [][/\ \A i, j \in 1..Len(employees') :
             employees'[i].employee_id = employees'[j].employee_id => i = j
       /\ \A id \in Ids :
             RegistryHas(employees', id) => GetEmployee(employees', id).employee_id = id
       /\ (IsAddCall' /\ call'.accepted) =>
             IF RegistryHas(employees, call'.employee_id)
             THEN /\ IdList(employees') = IdList(employees)
                  /\ \A i \in 1..Len(employees) :
                        IF employees[i].employee_id = call'.employee_id
                        THEN /\ employees'[i].bonuses = employees[i].bonuses
                             /\ employees'[i].custom_deductions
                                   = employees[i].custom_deductions
                        ELSE employees'[i] = employees[i]
             ELSE /\ IdList(employees') = Append(IdList(employees), call'.employee_id)
                  /\ \A i \in 1..Len(employees) : employees'[i] = employees[i]
       /\ IsDeleteCall' =>
             IF RegistryHas(employees, call'.employee_id)
             THEN /\ call'.returned
                  /\ employees' = SelectSeq(employees,
                         LAMBDA e : e.employee_id # call'.employee_id)
                  /\ IdList(employees') = WithoutId(IdList(employees), call'.employee_id)
             ELSE /\ ~call'.returned
                  /\ employees' = employees]_vars

C30_Witness ==
    /\ IsAddCall /\ call.accepted
    /\ Len(employees) = 2
    /\ employees[1].employee_id = call.employee_id
    /\ employees[1].employee_id > employees[2].employee_id
    /\ employees[1].base_salary_type = "hourly"
    /\ employees[1].hours_worked = Some(3)
    /\ employees[1].custom_deductions = FileDeduction

C30_WitnessDeleted ==
    /\ IsDeleteCall /\ call.returned
    /\ Len(employees) = 1
    /\ employees[1].employee_id # call.employee_id

----------------------------------------------------------------------------
(* Properties of the registry under loading, the main form and the details
   dialog, checked under SpecEdit *)

IsSaveCall == call.op = "save_and_close"

(* C21: an employee whose pay basis is not monthly, hourly or daily is
   rejected when the Employee is constructed, so after any sequence of load,
   add / update and edit-save every employee of the registry has one of the
   three pay bases. *)
C21_RecognisedPayBasis ==
    /\ \A i \in 1..Len(employees) : employees[i].base_salary_type \in SalaryTypes
    /\ call = StartupFailed => employees = <<>>

C21_Witness ==
    /\ call = StartupFailed
    /\ employees = <<>>

C21_WitnessSaved ==
    /\ IsSaveCall /\ call.accepted
    /\ Len(employees) = 1
    /\ employees[1].base_salary_type = "daily"
    /\ employees[1].days_worked = Some(4)

NonNegative(employee) ==
    /\ employee.base_salary_value >= 0
    /\ employee.tax_exemptions >= 0
    /\ employee.hours_worked # None => Val(employee.hours_worked) >= 0
    /\ employee.days_worked # None => Val(employee.days_worked) >= 0

(* C22: negative base salary, hours, days and tax exemptions are rejected at
   entry and edit time: after any sequence of add / update and details-dialog
   Save operations, accepted or rejected, every employee of the registry has
   non-negative values when process_all_payroll runs. *)
C22_NonNegativeAtCalculation ==
    IsProcessCall => \A i \in 1..Len(employees) : NonNegative(employees[i])

(* C28: when Save in the details dialog is rejected, the employee record of
   the registry is left exactly as it was before the Save attempt. *)
C28_RejectedSaveLeavesRecord ==
    [][(IsSaveCall' /\ ~call'.accepted) => employees' = employees]_vars

----------------------------------------------------------------------------
(* Properties of the rules under the configuration editor, checked under
   SpecConfig *)

IsSaveConfigCall == call.op = "save_config_and_close"

ElementsOf(s) == { s[i] : i \in 1..Len(s) }

(* the calculator holds the rules cfg: the brackets in ascending min_income
   order, the social security values and the same deductions by name *)
SameRules(cfg, calc) ==
    /\ calc.tax_brackets = SortedByMinIncome(cfg.tax_brackets)
    /\ calc.social_security_config = cfg.social_security
    /\ ElementsOf(calc.default_deductions_config) = ElementsOf(cfg.deductions)
    /\ Len(calc.default_deductions_config) = Len(cfg.deductions)

BadShape(deductions) ==
    \E i \in 1..Len(deductions) :
       \/ deductions[i].type \notin {"fixed", "percentage"}
       \/ deductions[i].type = "fixed" /\ deductions[i].amount = None
       \/ deductions[i].type = "percentage" /\ deductions[i].rate = None

(* C23: rules of a bad shape (a default deduction of an unrecognised type, a
   fixed deduction without amount, a percentage deduction without rate) fail
   when the calculator is constructed, before any employee is calculated;
   they never surface as the failure of an employee's calculation or as a
   deduction that is silently zero. *)
C23_BadShapeFailsAtLoad ==
    IsProcessCall =>
        /\ ~BadShape(calculator.default_deductions_config)
        /\ \A i \in 1..Len(employees) :
              CalculateGrossPay(employees[i]).ok
                  => employees[i].employee_id \notin ElementsOf(call.errors)

(* C24: the calculator's rules are constructed again when an edit of the
   rules is saved, and do not change otherwise: after an accepted Save in the
   editor the calculator holds the edited brackets, social security values
   and default deductions, every other step leaves the calculator as it is,
   and a process_all_payroll pass calculates every employee with these rules. *)
C24_RulesRebuiltOnSave ==
    [][/\ (IsSaveConfigCall' /\ call'.accepted) => SameRules(config', calculator')
       /\ ~(IsSaveConfigCall' /\ call'.accepted) => calculator' = calculator
       /\ IsProcessCall' =>
             /\ calculator' = calculator
             /\ \A k \in 1..Len(call'.result) :
                   call'.result[k].result =
                       CalculatePayroll(calculator,
                           GetEmployee(employees, call'.result[k].employee_id)).value]_vars

C24_Witness ==
    /\ IsProcessCall
    /\ NewBracket \in ElementsOf(calculator.tax_brackets)
    /\ calculator.social_security_config.employee_rate = 50
    /\ "union" \in NamesOf(calculator.default_deductions_config)
    /\ "pension" \notin NamesOf(calculator.default_deductions_config)
    /\ SameRules(config, calculator)
    /\ Len(call.result) = 2
    /\ \A k \in 1..2 : Len(call.result[k].result.deductions_breakdown) = 2

(* C29: an edit of the rules that is abandoned with Cancel never reaches the
   calculator: whenever no editor is open the rules shown by the editor are
   the rules the calculator uses, and a Save from an editor session in which
   no bracket or deduction was edited leaves the calculator's brackets and
   default deductions as they were. *)
C29_CancelledEditDiscarded ==
    [][/\ ~EditorOpen' => SameRules(config', calculator')
       /\ (call.op = "_open_config_editor_window" /\ IsSaveConfigCall' /\ call'.accepted)
             => /\ calculator'.tax_brackets = calculator.tax_brackets
                /\ ElementsOf(calculator'.default_deductions_config)
                      = ElementsOf(calculator.default_deductions_config)]_vars

----------------------------------------------------------------------------
(* Properties of the bracket iteration, checked under SpecTax *)

CallTaxableIncome == Max(0, call.gross_income - call.tax_exemptions * GrossDen)

(* C25: the bracket loop stops early at a bracket only when the taxable
   income is at most the bracket's min_income and that min_income is not 0;
   a bracket with min_income 0 is never the one the loop leaves at, also not
   when the taxable income is 0. *)
C25_BreakOnlyAtPositiveMin ==
    IsTaxCall =>
        LET k == BreakIndex(calculator.tax_brackets, 1, CallTaxableIncome)
        IN  k # 0 =>
              /\ CallTaxableIncome <= calculator.tax_brackets[k].min_income * GrossDen
              /\ calculator.tax_brackets[k].min_income # 0

(* the sum of the claim: every bracket of the list contributes, none is
   skipped by an early exit *)
RECURSIVE SumOverBrackets(_, _, _, _)
SumOverBrackets(brackets, i, taxable, previous_tier_max) ==
    IF i > Len(brackets) THEN 0
    ELSE LET b == brackets[i]
             upper == IF b.max_income = None THEN taxable
                      ELSE Min(taxable, Val(b.max_income) * GrossDen)
             lower == Max(b.min_income * GrossDen, previous_tier_max)
             next == Max(previous_tier_max,
                         IF b.max_income = None THEN taxable
                         ELSE Val(b.max_income) * GrossDen)
         IN  b.rate * Max(0, upper - lower)
                 + SumOverBrackets(brackets, i + 1, taxable, next)

(* C26: the income tax is the sum, over the brackets in ascending min_income
   order, of rate * max(0, upper - lower) with upper = min(taxable,
   max_income or infinity), lower = max(min_income, previous_tier_max) and
   previous_tier_max starting at 0 and becoming max(previous_tier_max,
   max_income or taxable) after each bracket; so the early exit does not
   change the total, and the brackets after an unbounded bracket add
   nothing to it. *)
C26_TaxIsSumOverBrackets ==
    IsTaxCall =>
        LET brackets == SortedByMinIncome(config.tax_brackets) IN
        /\ call.result = SumOverBrackets(brackets, 1, CallTaxableIncome, 0)
        /\ \A i \in 1..Len(brackets) :
              brackets[i].max_income = None =>
                  call.result = SumOverBrackets(SubSeq(brackets, 1, i), 1, CallTaxableIncome, 0)

C26_Witness ==
    /\ IsTaxCall
    /\ call.result > 0
    /\ Len(calculator.tax_brackets) = 3
    /\ calculator.tax_brackets[1].max_income = None
    /\ calculator.tax_brackets[2].min_income * GrossDen < CallTaxableIncome
    /\ BreakIndex(calculator.tax_brackets, 1, CallTaxableIncome) = 3

(* C27: with rates between 0 and 1 the income tax never exceeds the taxable
   income max(0, gross - exemptions), also for brackets that overlap or are
   not sorted in the rule file. *)
C27_TaxAtMostTaxableIncome ==
    IsTaxCall => call.result <= CallTaxableIncome * RateDen

C27_Witness ==
    /\ IsTaxCall
    /\ config.tax_brackets \in FullRateTaxBracketLists
    /\ config.tax_brackets # calculator.tax_brackets
    /\ calculator.tax_brackets[1].max_income = None
    /\ calculator.tax_brackets[2].min_income * GrossDen < CallTaxableIncome
    /\ call.tax_exemptions > 0
    /\ call.result = CallTaxableIncome * RateDen
    /\ call.result > 0

====
